---- MODULE Spec2Model ----
(***************************************************************************)
(* The fetch -> filter -> annotate -> persist pipeline of the two scripts  *)
(* video_transcript.py (variant "transcript") and youtube_scraper.py      *)
(* (variant "scraper").  A run is one execution of main(); the remote     *)
(* tables videos and transcriptions are shared by all runs.  Every remote *)
(* call (search page, table select, table insert, captions fetch,         *)
(* generative-text call) is one step, and its outcome is chosen by the    *)
(* environment.                                                           *)
(*                                                                         *)
(* Strings the code computes with are sequences of one-character strings. *)
(* Title, description and channel are carried through the pipeline        *)
(* untouched and take no part in any decision; a video record is its Link *)
(* and its "Qualitative analysis" field.                                  *)
(***************************************************************************)
EXTENDS Integers, Sequences, FiniteSets, Bags, TLC

VARIABLES
    variant,         \* run -> which script it executes
    pc,              \* run -> position in main()
    raised,          \* run -> the call whose exception ended the run ("none")
    max_results,     \* run -> search_videos' max_results argument
    total_results,   \* run -> search_videos' total_results
    next_page_token, \* run -> search_videos' next_page_token
    requested,       \* run -> maxResults of the last search request (0: none yet)
    results,         \* run -> search_videos' results, then main's videos list
    hits,            \* run -> number of hits served that have a videoId and a detail
    overfull,        \* run -> some page held more items than were requested
    idx,             \* run -> position of the current loop in the videos list
    transcript_text, \* run -> value returned by the last fetch_transcript call
    lastFetch,       \* run -> what the last fetch_transcript call was given
    report,          \* run -> file the report was written to ("none" before)
    videosTable,     \* bag of rows of the remote table videos
    transcriptions   \* bag of rows of the remote table transcriptions

vars == <<variant, pc, raised, max_results, total_results, next_page_token,
          requested, results, hits, overfull, idx, transcript_text, lastFetch,
          report, videosTable, transcriptions>>

searchVars == <<max_results, total_results, next_page_token, requested, results,
                hits, overfull>>

----------------------------------------------------------------------------
(* Bounds of the model *)

\* hits the upstream catalogue holds for the query of a pipeline run
MaxHits == 2
\* items a page may hold beyond the requested page size (search_videos alone)
MaxOver == 1
\* items of a page lacking a videoId or a detail (search_videos alone)
MaxBad == 1
\* max_results values above the page limit tried for search_videos alone
MaxAbove == 2

(* Program constants *)

\* min(50, max_results - total_results)
PageLimit == 50
\* search_videos(youtube_service, query, days=7, max_results=50)
MaxResultsTranscript == 50
\* search_videos(youtube_service, query, days=7, max_results=10)
MaxResultsScraper == 10

Variants == {"transcript", "scraper"}

Min(a, b) == IF a < b THEN a ELSE b

----------------------------------------------------------------------------
(* Strings *)

\* "https://www.youtube.com/watch?v=" : the only part that matters to
\* split("v=") is that it ends with its single occurrence of "v=".
WatchPrefix == <<"w", "?", "v", "=">>

\* video ids are drawn from [A-Za-z0-9_-]: they may hold "v", never "="
VideoIds == {<<"a">>, <<"v">>}

\* f"https://www.youtube.com/watch?v={video_id}"
WatchUrl(video_id) == WatchPrefix \o video_id

\* s[i..] starts with "v="
SepAt(s, i) == i + 1 <= Len(s) /\ s[i] = "v" /\ s[i + 1] = "="

\* extract_videoId taking the first part of the split: link.split("v=")[0]
extract_videoId_First(link) ==
    LET starts == {i \in 1..Len(link) : SepAt(link, i)}
    IN  IF starts = {} THEN link
        ELSE LET first == CHOOSE i \in starts : \A j \in starts : i <= j
             IN  SubSeq(link, 1, first - 1)

\* link.split("v=")[-1] : the text after the last occurrence of "v="
extract_videoId(link) ==
    LET starts == {i \in 1..Len(link) : SepAt(link, i)}
    IN  IF starts = {} THEN link
        ELSE LET last == CHOOSE i \in starts : \A j \in starts : j <= i
             IN  SubSeq(link, last + 2, Len(link))

----------------------------------------------------------------------------
(* Video Discovery: search_videos *)

\* response.get("nextPageToken"): absent, or the token of the page after
NoToken == "None"
Tokens == {NoToken, "page_a", "page_b"}

\* a search hit: item["id"]["videoId"] (or none), and whether videos().list
\* answers with a non-empty "items" for it
NoId == <<>>
Hit(video_id, detail) == [videoId |-> video_id, detail |-> detail]

\* `if video_id := item.get("id", {}).get("videoId")`, `if video_response["items"]`
Recorded(item) == item.videoId # NoId /\ item.detail

\* the record appended for a hit
VideoRecord(item) == [Link |-> WatchUrl(item.videoId), analysis |-> "absent"]

\* the for loop over response["items"]: the records it appends, in order
RECURSIVE Appended(_)
Appended(items) ==
    IF items = <<>> THEN <<>>
    ELSE (IF Recorded(Head(items)) THEN <<VideoRecord(Head(items))>> ELSE <<>>)
         \o Appended(Tail(items))

\* PageSize without the page limit: max_results - total_results
PageSize_NoLimit(max, total) == max - total

\* maxResults=min(50, max_results - total_results)
PageSize(max, total) == Min(PageLimit, max - total)

\* `while total_results < max_results`
LoopGuard(total, max) == total < max

\* `if not next_page_token: break`, then the loop condition again
SearchContinues(token, total, max) == token # NoToken /\ LoopGuard(total, max)

----------------------------------------------------------------------------
(* Transcript Resolver: fetch_transcript *)

\* a Python value that is either None or a string
None == [none |-> TRUE, text |-> <<>>]
Str(text) == [none |-> FALSE, text |-> text]

IsSpace(c) == c = " "

\* " ".join([item["text"] for item in transcript_list])
RECURSIVE Join(_)
Join(fragments) ==
    IF fragments = <<>> THEN <<>>
    ELSE IF Len(fragments) = 1 THEN Head(fragments)
    ELSE Head(fragments) \o <<" ">> \o Join(Tail(fragments))

\* str.strip()
RECURSIVE LStrip(_)
LStrip(s) == IF s # <<>> /\ IsSpace(Head(s)) THEN LStrip(Tail(s)) ELSE s
RECURSIVE RStrip(_)
RStrip(s) ==
    IF s # <<>> /\ IsSpace(s[Len(s)]) THEN RStrip(SubSeq(s, 1, Len(s) - 1)) ELSE s
Strip(s) == RStrip(LStrip(s))

\* outcomes of YouTubeTranscriptApi.get_transcript
FetchOutcomes == {"ok", "TranscriptsDisabled", "NoTranscriptFound", "Exception"}

\* outcomes of langdetect.detect: a language code, LangDetectException, or
\* any other error
DetectOutcomes == {"en", "pt", "es", "LangDetectException", "Exception"}

\* langdetect finds no features in a text without a non-blank character
\* and raises LangDetectException for it
DetectOn(text) ==
    IF Strip(text) = <<>> THEN {"LangDetectException"} ELSE DetectOutcomes

\* `if lang not in ["en", "pt"]`
AllowedLangs == {"en", "pt"}

\* the outcome of a call: a returned value or a propagated exception
Returned(v) == [raised |-> FALSE, value |-> v]
Raised(e) == [raised |-> TRUE, value |-> e]

\* DetectAndFilter without the `if transcript_text.strip()` guard
DetectAndFilter_AlwaysDetects(captions, det) ==
    LET text == Join(captions)
    IN  CASE det = "LangDetectException" -> Returned(None)
          [] det = "Exception" -> Raised("Exception")
          [] det \notin AllowedLangs -> Returned(None)
          [] OTHER -> Returned(Str(text))

\* the body of the outer try, once get_transcript has answered
DetectAndFilter(captions, det) ==
    LET text == Join(captions)
    IN  IF Strip(text) # <<>>
        THEN CASE det = "LangDetectException" -> Returned(None)
               [] det = "Exception" -> Raised("Exception")
               [] det \notin AllowedLangs -> Returned(None)
               [] OTHER -> Returned(Str(text))
        ELSE Returned(Str(text))

\* FetchHandlers without the `except Exception` clause
FetchHandlers_NamedOnly(outcome) ==
    IF outcome.raised /\ outcome.value \in {"TranscriptsDisabled", "NoTranscriptFound"}
    THEN Returned(None)
    ELSE outcome

\* `except (TranscriptsDisabled, NoTranscriptFound)` and `except Exception`
FetchHandlers(outcome) ==
    IF outcome.raised THEN Returned(None) ELSE outcome

fetch_transcript(fetch, captions, det) ==
    FetchHandlers(IF fetch = "ok" THEN DetectAndFilter(captions, det)
                  ELSE Raised(fetch))

----------------------------------------------------------------------------
(* Quality Evaluator: evaluate_video *)

\* what requests.post does: it raises, or answers with a status and a body.
\* Bodies: "text" is {"candidates": [{"content": {"parts": [{"text": "..."}]}}]},
\* "text_null" the same with "text": null, "not_json" does not parse,
\* "no_candidates" lacks the key, "empty_candidates" has [], "null_candidates"
\* has null, "no_parts" has a first candidate without content.parts.
EvalBodies == {"text", "text_null", "not_json", "no_candidates",
               "empty_candidates", "null_candidates", "no_parts"}
EvalResponses ==
    {[transport |-> "error", status |-> 0, body |-> "not_json"]}
    \cup {[transport |-> "ok", status |-> 500, body |-> "not_json"]}
    \cup {[transport |-> "ok", status |-> 200, body |-> b] : b \in EvalBodies}

\* video_transcript.py: the whole exchange sits in `try ... except Exception`
evaluate_video_transcript(resp) ==
    IF resp.transport = "error" THEN Returned("placeholder")
    ELSE IF resp.status # 200 THEN Returned("placeholder")
    ELSE CASE resp.body = "not_json" -> Returned("placeholder")
           [] resp.body \in {"no_candidates", "empty_candidates",
                             "null_candidates", "no_parts"} -> Returned("placeholder")
           [] resp.body = "text_null" -> Returned("None")
           [] OTHER -> Returned("text")

\* youtube_scraper.py: requests.post is outside any try, and only KeyError
\* and IndexError are caught around the extraction
evaluate_video_scraper(resp) ==
    IF resp.transport = "error" THEN Raised("ConnectionError")
    ELSE IF resp.status # 200 THEN Returned("placeholder")
    ELSE CASE resp.body = "not_json" -> Raised("ValueError")
           [] resp.body = "null_candidates" -> Raised("TypeError")
           [] resp.body \in {"no_candidates", "no_parts"} -> Returned("placeholder")
           [] resp.body = "empty_candidates" -> Returned("placeholder")
           [] resp.body = "text_null" -> Returned("None")
           [] OTHER -> Returned("text")

evaluate_video(v, resp) ==
    IF v = "transcript" THEN evaluate_video_transcript(resp)
    ELSE evaluate_video_scraper(resp)

----------------------------------------------------------------------------
(* Persistence Gateway *)

\* outcomes of a select: the rows, or an error of the client
SelectOutcomes == {"ok", "exception"}
\* outcomes of an insert: the row is stored and echoed in response.data,
\* response.data comes back empty and nothing is stored, or the client raises
InsertOutcomes == {"ok", "empty", "exception"}

\* rows a select(...).eq(column, value) returns
RowsWhere(table, column, value) ==
    {row \in BagToSet(table) : row[column] = value}

\* already_transcripted with `len(response.data) > 1`
already_transcripted_MoreThanOne(table, video_id) ==
    Cardinality(RowsWhere(table, "video_id", video_id)) > 1

\* supabase.table("transcriptions").select("id").eq("video_id", video_id)
\* ... return len(response.data) > 0
already_transcripted(table, video_id) ==
    RowsWhere(table, "video_id", video_id) # {}

\* already_saved looking the bare video id up in the link column
already_saved_ById(table, video_id) ==
    RowsWhere(table, "link", video_id) # {}

\* supabase.table("videos").select("id").eq("link", f"...watch?v={video_id}")
\* ... return len(response.data) > 0
already_saved(table, video_id) ==
    RowsWhere(table, "link", WatchUrl(video_id)) # {}

\* Inserted as an insert-if-absent on the natural key
Inserted_IfAbsent(table, row, outcome) ==
    IF /\ outcome = "ok"
       /\ \A old \in BagToSet(table) :
             \A c \in {"link", "video_id"} \cap DOMAIN row : old[c] # row[c]
    THEN table (+) SetToBag({row})
    ELSE table

\* the table after insert(row).execute() with the given outcome
Inserted(table, row, outcome) ==
    IF outcome = "ok" THEN table (+) SetToBag({row}) ELSE table

\* data = {"video_id": video_id, "transcript_text": transcript_text}
TranscriptRow(video_id, text) == [video_id |-> video_id, transcript_text |-> text]

\* row = {..., "link": item["Link"], "qualitative_analysis": item.get(...)}
VideoRow(item) == [link |-> item.Link, qualitative_analysis |-> item.analysis]

\* save_transcription wraps the insert in `try ... except Exception`
SaveTranscriptionRaises(outcome) == FALSE

\* save_database: video_transcript.py wraps the insert in try/except,
\* youtube_scraper.py does not
SaveDatabaseRaises(v, outcome) == v = "scraper" /\ outcome = "exception"

\* number of rows of the table with that key
RowCount(table, column, value) ==
    LET rows == RowsWhere(table, column, value)
        RECURSIVE Sum(_)
        Sum(S) == IF S = {} THEN 0
                  ELSE LET x == CHOOSE y \in S : TRUE
                       IN  CopiesIn(x, table) + Sum(S \ {x})
    IN  Sum(rows)

----------------------------------------------------------------------------
(* Report Writer: save_excel / save_results_to_excel *)

\* file_in_use(file_name) decides between the default name and the
\* timestamp-suffixed one
ReportName(inUse) == IF inUse THEN "timestamped" ELSE "default"

----------------------------------------------------------------------------
(* main: the order of the stages *)

\* NextStage with save_database called before the report is written
NextStage_DatabaseFirst(v, stage) ==
    CASE stage = "search" -> IF v = "transcript" THEN "transcripts" ELSE "evaluation"
      [] stage = "transcripts" -> "evaluation"
      [] stage = "evaluation" -> "database"
      [] stage = "database" -> "report"
      [] OTHER -> "end"

\* video_transcript.py: search, transcripts, evaluation, report, database;
\* youtube_scraper.py: search, evaluation, report, database
NextStage(v, stage) ==
    CASE stage = "search" -> IF v = "transcript" THEN "transcripts" ELSE "evaluation"
      [] stage = "transcripts" -> "evaluation"
      [] stage = "evaluation" -> "report"
      [] stage = "report" -> "database"
      [] OTHER -> "end"

\* where main stands when it reaches a stage: a `for video in videos` loop
\* over an empty list falls through to the next stage
RECURSIVE Enter(_, _, _)
Enter(v, stage, videos) ==
    CASE stage = "transcripts" ->
           IF videos # <<>> THEN "tr_check" ELSE Enter(v, NextStage(v, stage), videos)
      [] stage = "evaluation" ->
           IF videos # <<>> THEN "eval" ELSE Enter(v, NextStage(v, stage), videos)
      [] stage = "report" -> "excel"
      [] stage = "database" ->
           IF videos # <<>> THEN "db_check" ELSE Enter(v, NextStage(v, stage), videos)
      [] OTHER -> "done"

\* the stage a position of main belongs to
StageOf(p) ==
    CASE p \in {"start", "search"} -> "search"
      [] p \in {"tr_check", "tr_fetch", "tr_save"} -> "transcripts"
      [] p = "eval" -> "evaluation"
      [] p = "excel" -> "report"
      [] p \in {"db_check", "db_insert"} -> "database"
      [] OTHER -> "end"

----------------------------------------------------------------------------
(* Steps of a run *)

NoFetch == [fetch |-> "none", captions |-> <<>>, det |-> "none"]

Goto(r, p) == pc' = [pc EXCEPT ![r] = p]

\* an exception nobody catches ends main
Crash(r, who) ==
    /\ Goto(r, "crashed")
    /\ raised' = [raised EXCEPT ![r] = who]

\* the end of one pass of a `for video in videos` loop standing at loopPc
NextVideo(r, loopPc, videos) ==
    IF idx[r] < Len(videos)
    THEN /\ Goto(r, loopPc)
         /\ idx' = [idx EXCEPT ![r] = idx[r] + 1]
    ELSE /\ Goto(r, Enter(variant[r], NextStage(variant[r], StageOf(loopPc)), videos))
         /\ idx' = [idx EXCEPT ![r] = 1]

\* hits of a page that have a videoId and a non-empty detail response
GoodHits(items) ==
    Cardinality({i \in 1..Len(items) : items[i].videoId # NoId /\ items[i].detail})

\* main calls search_videos: the loop condition is tested for the first time
StartSearch(r) ==
    /\ pc[r] = "start"
    /\ IF LoopGuard(total_results[r], max_results[r])
       THEN Goto(r, "search")
       ELSE Goto(r, Enter(variant[r], NextStage(variant[r], "search"), results[r]))
    /\ UNCHANGED <<variant, raised, searchVars, idx, transcript_text,
                   lastFetch, report, videosTable, transcriptions>>

\* one pass of the while loop: the request, the detail lookups, the
\* bookkeeping, the break and the loop condition
SearchPage(r, page) ==
    /\ pc[r] = "search"
    /\ LET req == PageSize(max_results[r], total_results[r])
           total == total_results[r] + Len(page.items)
           found == results[r] \o Appended(page.items)
       IN  /\ requested' = [requested EXCEPT ![r] = req]
           /\ results' = [results EXCEPT ![r] = found]
           /\ total_results' = [total_results EXCEPT ![r] = total]
           /\ next_page_token' = [next_page_token EXCEPT ![r] = page.token]
           /\ hits' = [hits EXCEPT ![r] = hits[r] + GoodHits(page.items)]
           /\ overfull' = [overfull EXCEPT ![r] = overfull[r] \/ Len(page.items) > req]
           /\ IF SearchContinues(page.token, total, max_results[r])
              THEN Goto(r, "search")
              ELSE Goto(r, Enter(variant[r], NextStage(variant[r], "search"), found))
    /\ UNCHANGED <<variant, raised, max_results, idx, transcript_text,
                   lastFetch, report, videosTable, transcriptions>>

\* search().list(...).execute() or videos().list(...).execute() raises
SearchRaise(r) ==
    /\ pc[r] = "search"
    /\ Crash(r, "search_videos")
    /\ UNCHANGED <<variant, searchVars, idx, transcript_text, lastFetch,
                   report, videosTable, transcriptions>>

\* the video the current loop pass is about
Video(r) == results[r][idx[r]]

\* video_transcript.main: `if already_transcripted(supabase, video_id)`
TrCheck(r, sel) ==
    /\ pc[r] = "tr_check"
    /\ IF sel = "exception"
       THEN Crash(r, "already_transcripted") /\ UNCHANGED idx
       ELSE /\ raised' = raised
            /\ IF already_transcripted(transcriptions, extract_videoId(Video(r).Link))
               THEN NextVideo(r, "tr_check", results[r])
               ELSE Goto(r, "tr_fetch") /\ UNCHANGED idx
    /\ UNCHANGED <<variant, searchVars, transcript_text, lastFetch, report,
                   videosTable, transcriptions>>

\* video_transcript.main: transcript_text = fetch_transcript(video_id, ...)
TrFetch(r, fetch, captions, det) ==
    /\ pc[r] = "tr_fetch"
    /\ LET out == fetch_transcript(fetch, captions, det)
       IN  IF out.raised
           THEN Crash(r, "fetch_transcript") /\ UNCHANGED transcript_text
           ELSE /\ Goto(r, "tr_save")
                /\ raised' = raised
                /\ transcript_text' = [transcript_text EXCEPT ![r] = out.value]
    /\ lastFetch' = [lastFetch EXCEPT ![r] =
                       [fetch |-> fetch, captions |-> captions, det |-> det]]
    /\ UNCHANGED <<variant, searchVars, idx, report, videosTable,
                   transcriptions>>

\* video_transcript.main: save_transcription(supabase, video_id, transcript_text)
TrSave(r, ins) ==
    /\ pc[r] = "tr_save"
    /\ transcriptions' =
         Inserted(transcriptions,
                  TranscriptRow(extract_videoId(Video(r).Link), transcript_text[r]),
                  ins)
    /\ IF SaveTranscriptionRaises(ins)
       THEN Crash(r, "save_transcription") /\ UNCHANGED idx
       ELSE raised' = raised /\ NextVideo(r, "tr_check", results[r])
    /\ transcript_text' = [transcript_text EXCEPT ![r] = None]
    /\ lastFetch' = [lastFetch EXCEPT ![r] = NoFetch]
    /\ UNCHANGED <<variant, searchVars, report, videosTable>>

\* one pass of the evaluation loop: video["Qualitative analysis"] = analysis
Eval(r, resp) ==
    /\ pc[r] = "eval"
    /\ LET out == evaluate_video(variant[r], resp)
       IN  IF out.raised
           THEN Crash(r, "evaluate_video") /\ UNCHANGED <<idx, results>>
           ELSE /\ raised' = raised
                /\ results' = [results EXCEPT ![r][idx[r]].analysis = out.value]
                /\ NextVideo(r, "eval", results[r])
    /\ UNCHANGED <<variant, max_results, total_results, next_page_token,
                   requested, hits, overfull, transcript_text, lastFetch, report,
                   videosTable, transcriptions>>

\* save_excel(videos_with_analysis) / save_results_to_excel(results_with_analysis)
SaveExcel(r, inUse) ==
    /\ pc[r] = "excel"
    /\ report' = [report EXCEPT ![r] = ReportName(inUse)]
    /\ Goto(r, Enter(variant[r], NextStage(variant[r], "report"), results[r]))
    /\ UNCHANGED <<variant, raised, searchVars, idx, transcript_text,
                   lastFetch, videosTable, transcriptions>>

\* save_database: `if already_saved(...)` / `if is_video_in_database(...)`
DbCheck(r, sel) ==
    /\ pc[r] = "db_check"
    /\ IF sel = "exception"
       THEN Crash(r, "already_saved") /\ UNCHANGED idx
       ELSE /\ raised' = raised
            /\ IF already_saved(videosTable, extract_videoId(Video(r).Link))
               THEN NextVideo(r, "db_check", results[r])
               ELSE Goto(r, "db_insert") /\ UNCHANGED idx
    /\ UNCHANGED <<variant, searchVars, transcript_text, lastFetch, report,
                   videosTable, transcriptions>>

\* save_database: supabase.table("videos").insert(row).execute()
DbInsert(r, ins) ==
    /\ pc[r] = "db_insert"
    /\ videosTable' = Inserted(videosTable, VideoRow(Video(r)), ins)
    /\ IF SaveDatabaseRaises(variant[r], ins)
       THEN Crash(r, "save_database") /\ UNCHANGED idx
       ELSE raised' = raised /\ NextVideo(r, "db_check", results[r])
    /\ UNCHANGED <<variant, searchVars, transcript_text, lastFetch, report,
                   transcriptions>>

----------------------------------------------------------------------------
(* Inputs chosen by the environment *)

RECURSIVE SeqsUpTo(_, _)
SeqsUpTo(S, n) ==
    IF n = 0 THEN {<<>>}
    ELSE LET shorter == SeqsUpTo(S, n - 1)
         IN  shorter \cup {Append(q, x) : q \in shorter, x \in S}

\* hits of a pipeline run: either video, with or without a videoId and a detail
PipelineHits ==
    {Hit(id, TRUE) : id \in VideoIds}
    \cup {Hit(NoId, TRUE), Hit(CHOOSE id \in VideoIds : TRUE, FALSE)}

\* pages served to a pipeline run: the catalogue holds MaxHits hits at most,
\* and a page holds no more than the page size requested
PipelinePages(r) ==
    LET room == Min(MaxHits - total_results[r],
                    PageSize(max_results[r], total_results[r]))
    IN  {[items |-> items, token |-> token] :
            items \in SeqsUpTo(PipelineHits, room), token \in Tokens}

\* a page of n items, the last b of which lack a videoId or a detail
UniformPage(n, b, noId, token) ==
    [items |-> [j \in 1..n |->
                  IF j <= n - b THEN Hit(CHOOSE id \in VideoIds : TRUE, TRUE)
                  ELSE IF noId THEN Hit(NoId, TRUE)
                       ELSE Hit(CHOOSE id \in VideoIds : TRUE, FALSE)],
     token |-> token]

\* pages served to search_videos alone: empty, one short, full and overfull ones
SearchPages(r) ==
    LET req == PageSize(max_results[r], total_results[r])
        sizes == ({0, req - 1} \cup (req..(req + MaxOver))) \cap Nat
    IN  {UniformPage(n, b, noId, token) :
            n \in sizes, b \in 0..MaxBad, noId \in BOOLEAN, token \in Tokens}

\* max_results values tried for search_videos alone
SearchMaxima == (0..3) \cup ((PageLimit - 1)..(PageLimit + MaxAbove))

\* caption lists get_transcript answers with; joined: "", " ", " h k"
Captions == {<<>>, <<<<>>, <<>>>>, <<<<" ", "h">>, <<"k">>>>}

\* what a captions fetch and the detection can come to
FetchCases ==
    UNION {{[fetch |-> "ok", captions |-> c, det |-> d] : d \in DetectOn(Join(c))} :
              c \in Captions}
    \cup {[fetch |-> f, captions |-> <<>>, det |-> "none"] :
            f \in FetchOutcomes \ {"ok"}}

\* rows the tables may hold when a run starts: none, or the row an earlier
\* run stored for one of the videos
OldVideo == CHOOSE id \in VideoIds : TRUE
OldVideoRow == [link |-> WatchUrl(OldVideo), qualitative_analysis |-> "old"]
OldTranscriptRow == TranscriptRow(OldVideo, Str(<<"o", "l", "d">>))
InitialVideos == {EmptyBag, SetToBag({OldVideoRow})}
InitialTranscriptions == {EmptyBag, SetToBag({OldTranscriptRow})}

----------------------------------------------------------------------------
(* Specifications *)

\* the state when the runs R call main(), but for the search cap of each
InitWith(R) ==
    /\ variant \in [R -> Variants]
    /\ pc = [r \in R |-> "start"]
    /\ raised = [r \in R |-> "none"]
    /\ total_results = [r \in R |-> 0]
    /\ next_page_token = [r \in R |-> NoToken]
    /\ requested = [r \in R |-> 0]
    /\ results = [r \in R |-> <<>>]
    /\ hits = [r \in R |-> 0]
    /\ overfull = [r \in R |-> FALSE]
    /\ idx = [r \in R |-> 1]
    /\ transcript_text = [r \in R |-> None]
    /\ lastFetch = [r \in R |-> NoFetch]
    /\ report = [r \in R |-> "none"]
    /\ videosTable \in InitialVideos
    /\ transcriptions \in InitialTranscriptions

\* main's own call: max_results=50 in video_transcript.py, 10 in youtube_scraper.py
MainMaxResults(v) ==
    IF v = "transcript" THEN MaxResultsTranscript ELSE MaxResultsScraper

Init ==
    /\ InitWith({1})
    /\ max_results = [r \in {1} |-> MainMaxResults(variant[r])]

\* the runs of each specification
MainRuns == {1}

SearchStep(r) == \E page \in PipelinePages(r) : SearchPage(r, page)
TrCheckStep(r) == \E sel \in SelectOutcomes : TrCheck(r, sel)
TrFetchStep(r) == \E c \in FetchCases : TrFetch(r, c.fetch, c.captions, c.det)
TrSaveStep(r) == \E ins \in InsertOutcomes : TrSave(r, ins)
EvalStep(r) == \E resp \in EvalResponses : Eval(r, resp)
SaveExcelStep(r) == \E inUse \in BOOLEAN : SaveExcel(r, inUse)
DbCheckStep(r) == \E sel \in SelectOutcomes : DbCheck(r, sel)
DbInsertStep(r) == \E ins \in InsertOutcomes : DbInsert(r, ins)

Next ==
    \E r \in MainRuns :
        \/ StartSearch(r)
        \/ SearchStep(r)
        \/ SearchRaise(r)
        \/ TrCheckStep(r)
        \/ TrFetchStep(r)
        \/ TrSaveStep(r)
        \/ EvalStep(r)
        \/ SaveExcelStep(r)
        \/ DbCheckStep(r)
        \/ DbInsertStep(r)

\* one run of main()
Spec == Init /\ [][Next]_vars

\* search_videos alone, for any cap and any upstream
SearchInit ==
    /\ InitWith(MainRuns)
    /\ max_results \in [MainRuns -> SearchMaxima]
    /\ videosTable = EmptyBag
    /\ transcriptions = EmptyBag

AnySearchStep(r) == \E page \in SearchPages(r) : SearchPage(r, page)

SearchNext ==
    \E r \in MainRuns :
        \/ StartSearch(r)
        \/ AnySearchStep(r)
        \/ SearchRaise(r)

SearchSpec == SearchInit /\ [][SearchNext]_vars

\* the interpreter keeps executing the loop: a step that can be taken is taken
FairSearchSpec == SearchSpec /\ WF_vars(SearchNext)

----------------------------------------------------------------------------
(* Two runs of main() at the same time, every remote call answered *)
(* without an error                                                 *)

RaceRuns == {1, 2}

RaceInit ==
    /\ InitWith(RaceRuns)
    /\ max_results = [r \in RaceRuns |-> MainMaxResults(variant[r])]

\* one page of hits that all have a videoId and a detail
RacePages(r) ==
    {[items |-> items, token |-> NoToken] :
        items \in SeqsUpTo({Hit(id, TRUE) : id \in VideoIds},
                           Min(MaxHits - total_results[r],
                               PageSize(max_results[r], total_results[r])))}

RaceSearchStep(r) == \E page \in RacePages(r) : SearchPage(r, page)
RaceTrCheck(r) == TrCheck(r, "ok")
RaceTrFetch(r) == TrFetch(r, "NoTranscriptFound", <<>>, "none")
RaceTrSave(r) == TrSave(r, "ok")
RaceEval(r) == Eval(r, [transport |-> "ok", status |-> 200, body |-> "text"])
RaceSaveExcel(r) == SaveExcel(r, FALSE)
RaceDbCheck(r) == DbCheck(r, "ok")
RaceDbInsert(r) == DbInsert(r, "ok")

RaceNext ==
    \E r \in RaceRuns :
        \/ StartSearch(r)
        \/ RaceSearchStep(r)
        \/ RaceTrCheck(r)
        \/ RaceTrFetch(r)
        \/ RaceTrSave(r)
        \/ RaceEval(r)
        \/ RaceSaveExcel(r)
        \/ RaceDbCheck(r)
        \/ RaceDbInsert(r)

RaceSpec == RaceInit /\ [][RaceNext]_vars

----------------------------------------------------------------------------
(* Properties *)

\* run r of the specification takes the step
Moves(r) == pc'[r] # pc[r] \/ idx'[r] # idx[r]

\* the video id the hit behind the current video carried
CurrentIds(r) == {id \in VideoIds : Video(r).Link = WatchUrl(id)}

Annotated(r) == \A i \in 1..Len(results[r]) : results[r][i].analysis # "absent"
Unannotated(r) == \A i \in 1..Len(results[r]) : results[r][i].analysis = "absent"

\* C1: the pagination loop of search_videos stops exactly when the
\* accumulated item count is >= max_results or the response omits a
\* next-page token, and every call to search_videos eventually leaves the
\* loop, whatever the upstream answers.
C1_SearchTerminates ==
    <>(\A r \in MainRuns : pc[r] \notin {"start", "search"})

\* C1, the stop condition alone: the loop runs on only while the count is
\* below the cap and the last page carried a token, and search_videos has
\* returned only when the cap is reached or the last page carried no token.
C1_StopCondition ==
    \A r \in MainRuns :
        /\ pc[r] = "search" =>
             /\ total_results[r] < max_results[r]
             /\ requested[r] # 0 => next_page_token[r] # NoToken
        /\ pc[r] \notin {"start", "search", "crashed"} =>
             \/ total_results[r] >= max_results[r]
             \/ next_page_token[r] = NoToken

\* C2: evaluate_video never raises in either variant: whatever the
\* generative-text call does, main's run is not ended by evaluate_video,
\* and once the evaluation stage is over every video carries an analysis.
C2_EvaluateNeverRaises ==
    \A r \in MainRuns :
        /\ raised[r] # "evaluate_video"
        /\ StageOf(pc[r]) \in {"report", "database"} => Annotated(r)

\* what "language detection on the concatenated text" comes to
DetectionFailed(det) == det \in {"LangDetectException", "Exception"}

\* C3 as claimed: after a successful captions fetch the result follows the
\* detection on the concatenated text alone: a language outside {en, pt}
\* gives null, a failed detection gives null, en or pt gives the text
\* unchanged; empty and whitespace-only texts included.
C3_ByDetectionAlone ==
    \A r \in MainRuns :
        (pc[r] = "tr_save" /\ lastFetch[r].fetch = "ok") =>
            LET text == Join(lastFetch[r].captions)
                det == lastFetch[r].det
            IN  /\ DetectionFailed(det) => transcript_text[r] = None
                /\ (~DetectionFailed(det) /\ det \notin {"en", "pt"}) =>
                     transcript_text[r] = None
                /\ det \in {"en", "pt"} => transcript_text[r] = Str(text)

\* C3 amended: after a successful captions fetch, a text holding a
\* non-whitespace character follows the detection (a language outside
\* {en, pt} or a failed detection gives null, en or pt gives the text
\* unchanged), and an empty or whitespace-only text is returned unchanged
\* without detection.
C3_NonBlankByDetection ==
    \A r \in MainRuns :
        (pc[r] = "tr_save" /\ lastFetch[r].fetch = "ok") =>
            LET text == Join(lastFetch[r].captions)
                det == lastFetch[r].det
                blank == \A i \in 1..Len(text) : text[i] = " "
            IN  /\ (~blank /\ DetectionFailed(det)) => transcript_text[r] = None
                /\ (~blank /\ ~DetectionFailed(det) /\ det \notin {"en", "pt"}) =>
                     transcript_text[r] = None
                /\ (~blank /\ det \in {"en", "pt"}) => transcript_text[r] = Str(text)
                /\ blank => transcript_text[r] = Str(text)

\* C3 witness: captions in a language outside the allow-list came back as null
C3_Witness ==
    \E r \in MainRuns :
        /\ pc[r] = "tr_save"
        /\ lastFetch[r].fetch = "ok"
        /\ lastFetch[r].det = "es"
        /\ Join(lastFetch[r].captions) = <<" ", "h", " ", "k">>
        /\ transcript_text[r] = None

\* C4: fetch_transcript never raises to main: every call is followed by
\* save_transcription for that video, and every failure (captions disabled,
\* no transcript found, any other fetch error, any error of a detection
\* that was run) gives null.
C4_FetchNeverRaises ==
    \A r \in MainRuns :
        /\ raised[r] # "fetch_transcript"
        /\ lastFetch[r] # NoFetch => pc[r] = "tr_save"
        /\ (pc[r] = "tr_save" /\ lastFetch[r].fetch # "ok") =>
             transcript_text[r] = None
        /\ ( /\ pc[r] = "tr_save"
             /\ lastFetch[r].fetch = "ok"
             /\ \E i \in 1..Len(Join(lastFetch[r].captions)) :
                    Join(lastFetch[r].captions)[i] # " "
             /\ DetectionFailed(lastFetch[r].det) ) =>
             transcript_text[r] = None

\* C4 witness: a fetch that failed with an error other than the two named
\* ones, and main standing before save_transcription with null
C4_Witness ==
    \E r \in MainRuns :
        /\ pc[r] = "tr_save"
        /\ lastFetch[r].fetch = "Exception"
        /\ transcript_text[r] = None

\* the loop pass of run r ends and the loop at loopPc goes on with the next
\* video, or main goes on after the loop
PassEnds(r, loopPc) ==
    IF idx[r] < Len(results[r])
    THEN pc'[r] = loopPc /\ idx'[r] = idx[r] + 1
    ELSE pc'[r] \notin {"tr_check", "tr_fetch", "tr_save"} /\ pc'[r] # pc[r]

\* C5: when the video id of the current video has a row in transcriptions at
\* the existence check, main skips the video: no transcript is fetched,
\* nothing is inserted, the table stays as it is, and the loop goes on.
C5_TranscriptedSkipped ==
    [][\A r \in MainRuns :
          ( /\ pc[r] = "tr_check"
            /\ Moves(r)
            /\ \E id \in CurrentIds(r), row \in BagToSet(transcriptions) :
                   row.video_id = id ) =>
          /\ pc'[r] \notin {"tr_fetch", "tr_save"}
          /\ lastFetch'[r] = NoFetch
          /\ transcriptions' = transcriptions
          /\ videosTable' = videosTable
          /\ pc'[r] # "crashed" => PassEnds(r, "tr_check")]_vars

\* C5 witness: the only video found had a row from an earlier run; the
\* transcript loop is over and the table holds that row alone
C5_Witness ==
    \E r \in MainRuns :
        /\ pc[r] = "eval"
        /\ Len(results[r]) = 1
        /\ results[r][1].Link = WatchUrl(OldVideo)
        /\ transcriptions = SetToBag({OldTranscriptRow})

\* C6: when the watch-URL of the current record has a row in videos at the
\* existence check, save_database inserts nothing for it, the table stays
\* as it is, and the remaining records are processed.
C6_SavedSkipped ==
    [][\A r \in MainRuns :
          ( /\ pc[r] = "db_check"
            /\ Moves(r)
            /\ \E row \in BagToSet(videosTable) : row.link = Video(r).Link ) =>
          /\ pc'[r] # "db_insert"
          /\ videosTable' = videosTable
          /\ transcriptions' = transcriptions
          /\ pc'[r] # "crashed" =>
               IF idx[r] < Len(results[r])
               THEN pc'[r] = "db_check" /\ idx'[r] = idx[r] + 1
               ELSE pc'[r] = "done"]_vars

\* C6 witness: the first of two records had a row from an earlier run and
\* was skipped, the second was inserted
C6_Witness ==
    \E r \in MainRuns :
        /\ pc[r] = "done"
        /\ Len(results[r]) = 2
        /\ results[r][1].Link = WatchUrl(OldVideo)
        /\ results[r][2].Link # WatchUrl(OldVideo)
        /\ CopiesIn(OldVideoRow, videosTable) = 1
        /\ CopiesIn(VideoRow(results[r][2]), videosTable) = 1
        /\ BagCardinality(videosTable) = 2

\* C7: a failed insert, by an exception or by an empty response, is logged
\* and skipped in save_database of either variant and in
\* save_transcription: it never ends the run.
C7_InsertFailureSkipped ==
    \A r \in MainRuns : raised[r] \notin {"save_database", "save_transcription"}

\* nothing downstream of discovery has happened in run r
NothingDone(r) ==
    /\ Unannotated(r)
    /\ lastFetch[r] = NoFetch
    /\ report[r] = "none"
    /\ transcriptions \in InitialTranscriptions
    /\ videosTable \in InitialVideos

\* C8 as claimed: discovery is over before any transcript or evaluation
\* work, every evaluation is over before the report is written, and no
\* remote table is written before the report is.
C8_NoWriteBeforeReport ==
    \A r \in MainRuns :
        /\ (pc[r] \in {"start", "search"} \/ raised[r] = "search_videos") =>
             NothingDone(r)
        /\ report[r] # "none" => Annotated(r)
        /\ (videosTable \notin InitialVideos
              \/ transcriptions \notin InitialTranscriptions) =>
             report[r] # "none"

\* C8 amended: discovery is over before any transcript or evaluation work,
\* every evaluation is over before the report is written, and the videos
\* table is written only after the report is; the transcriptions table is
\* written in the transcript stage of video_transcript.py, after discovery
\* and before any evaluation and the report.
C8_StageOrder ==
    \A r \in MainRuns :
        /\ (pc[r] \in {"start", "search"} \/ raised[r] = "search_videos") =>
             NothingDone(r)
        /\ report[r] # "none" => Annotated(r)
        /\ videosTable \notin InitialVideos => report[r] # "none"
        /\ StageOf(pc[r]) = "transcripts" =>
             Unannotated(r) /\ report[r] = "none"
        /\ (StageOf(pc[r]) = "evaluation" \/ raised[r] = "evaluate_video") =>
             report[r] = "none" /\ videosTable \in InitialVideos
        /\ StageOf(pc[r]) = "database" => report[r] # "none"
        /\ pc[r] = "done" => report[r] # "none"

\* C8 witness: a finished run of video_transcript.py that wrote both tables
C8_Witness ==
    \E r \in MainRuns :
        /\ pc[r] = "done"
        /\ variant[r] = "transcript"
        /\ report[r] # "none"
        /\ videosTable \notin InitialVideos
        /\ transcriptions \notin InitialTranscriptions

\* C10: every search request asks for min(50, max_results - total_results)
\* items, a number in 1..50; as long as no page held more items than were
\* requested for it, total_results and the number of records stay within
\* max_results; and the records are exactly one per hit that has a videoId
\* and a non-empty detail response.
C10_BoundedByCap ==
    [][\A r \in MainRuns :
          (pc[r] = "search" /\ pc'[r] # "crashed") =>
          LET left == max_results[r] - total_results[r]
          IN  /\ requested'[r] = IF left < 50 THEN left ELSE 50
              /\ requested'[r] \in 1..50
              /\ ~overfull'[r] =>
                   /\ total_results'[r] <= max_results[r]
                   /\ Len(results'[r]) <= max_results[r]
              /\ Len(results'[r]) = hits'[r]]_vars

\* C10 witness: max_results = 2, one page of two hits and no token: two
\* records are returned
C10_Witness ==
    \E r \in MainRuns :
        /\ max_results[r] = 2
        /\ pc[r] \notin {"start", "search", "crashed"}
        /\ requested[r] = 2
        /\ total_results[r] = 2
        /\ next_page_token[r] = NoToken
        /\ Len(results[r]) = 2

\* C9: nothing makes the insert depend on the table: once a run has passed
\* the existence check for a key, its insert adds a row for that key
\* whatever the table holds by then, so two runs that both pass the check
\* before either inserts leave two rows for the key.
C9_InsertUnconditional ==
    [][\A r \in RaceRuns :
          /\ (pc[r] = "db_insert" /\ Moves(r)) =>
               RowCount(videosTable', "link", Video(r).Link)
                 = RowCount(videosTable, "link", Video(r).Link) + 1
          /\ (pc[r] = "tr_save" /\ Moves(r)) =>
               \A id \in CurrentIds(r) :
                   RowCount(transcriptions', "video_id", id)
                     = RowCount(transcriptions, "video_id", id) + 1]_vars

\* C9 witness: both tables hold two rows for one video
C9_Witness ==
    \E id \in VideoIds :
        /\ RowCount(videosTable, "link", WatchUrl(id)) = 2
        /\ RowCount(transcriptions, "video_id", id) = 2

\* C11: in one sequential run with no other writer, tables that start with
\* at most one row per key keep at most one row per key: one row per
\* watch-URL in videos and one per video id in transcriptions, even when
\* the list holds a video more than once and whichever inserts fail.
C11_AtMostOneRowPerKey ==
    \A id \in VideoIds :
        /\ RowCount(videosTable, "link", WatchUrl(id)) <= 1
        /\ RowCount(transcriptions, "video_id", id) <= 1

\* C11 witness: a finished run of video_transcript.py whose list held the
\* same video twice, with one row of this run for it in each table
C11_Witness ==
    \E r \in MainRuns :
        /\ pc[r] = "done"
        /\ variant[r] = "transcript"
        /\ Len(results[r]) = 2
        /\ results[r][1].Link = results[r][2].Link
        /\ OldVideoRow \notin BagToSet(videosTable)
        /\ OldTranscriptRow \notin BagToSet(transcriptions)
        /\ RowCount(videosTable, "link", results[r][1].Link) = 1
        /\ \E id \in VideoIds :
               /\ results[r][1].Link = WatchUrl(id)
               /\ RowCount(transcriptions, "video_id", id) = 1
====
